---- MODULE Spec2Model ----
(***************************************************************************)
(* Model of skectl (withlin/oc-demo): the HTTP authenticator               *)
(* (pkg/auth/authenticator.go), the login command (cmd/login.go) and the   *)
(* use-context command (cmd/use_context.go) over the kubeconfig file, and  *)
(* the masked terminal read (pkg/util/input.go).                           *)
(*                                                                         *)
(* Go strings that the code inspects character by character (server URLs,  *)
(* auth paths, context names) are sequences of one-character strings.      *)
(* Strings that the code only compares with "" (usernames, passwords,      *)
(* tokens, error texts) are TLA+ strings.                                  *)
(*                                                                         *)
(* A process either runs commands one after the other (Login, UseContext,  *)
(* NewLoginCmd) or calls pkg/auth directly (Construct, Call); what the     *)
(* terminal, the network and the file system answer is chosen with \E.     *)
(*   Spec       commands over any initial file, and direct pkg/auth calls  *)
(*   SpecFresh  commands only, starting without a kubeconfig file          *)
(*   SpecURL    pkg/auth over all short server and authPath strings        *)
(*   SpecAuth   direct pkg/auth calls only                                 *)
(*   SpecRead   one call of ReadSecurely, statement by statement, over     *)
(*              all short input streams                                    *)
(*   SpecRace   invocations of login and use-context running concurrently, *)
(*              each load and each write of the file one step              *)
(***************************************************************************)
EXTENDS Integers, Sequences, FiniteSets, TLC

VARIABLES
    file,       \* content of the kubeconfig file at the resolved path
    username,   \* package-level var username (cmd/login.go:16)
    password,   \* package-level var password (cmd/login.go:17)
    server,     \* package-level var server   (cmd/login.go:18)
    last,       \* observation of the most recent command invocation
    probe,      \* an authenticator under construction / call (pkg/auth)
    reader,     \* a call of util.ReadSecurely and the terminal it reads from
    procs       \* command invocations running concurrently on the file

vars == <<file, username, password, server, last, probe, reader, procs>>

----------------------------------------------------------------------------
(* Bounds *)

MaxServerLen == 4
MaxPathLen == 3
MaxInputLen == 4
NumInvocations == 2

----------------------------------------------------------------------------
(* strings package, on sequences of characters *)

HasPrefix(s, p) == Len(p) <= Len(s) /\ SubSeq(s, 1, Len(p)) = p

Contains(s, sub) ==
    \E i \in 1..(Len(s) - Len(sub) + 1) : SubSeq(s, i, i + Len(sub) - 1) = sub

\* strings.Index for a one-character needle; 0 when absent
Index(s, c) ==
    IF \E i \in 1..Len(s) : s[i] = c
    THEN CHOOSE i \in 1..Len(s) : s[i] = c /\ \A j \in 1..(i - 1) : s[j] # c
    ELSE 0

\* strings.LastIndex for a one-character needle; 0 when absent
LastIndex(s, c) ==
    IF \E i \in 1..Len(s) : s[i] = c
    THEN CHOOSE i \in 1..Len(s) : s[i] = c /\ \A j \in (i + 1)..Len(s) : s[j] # c
    ELSE 0

\* strings.TrimRight(s, c): drops EVERY trailing c
RECURSIVE TrimRight(_, _)
TrimRight(s, c) ==
    IF Len(s) > 0 /\ s[Len(s)] = c THEN TrimRight(SubSeq(s, 1, Len(s) - 1), c) ELSE s

\* all sequences over alphabet A of length at most n
RECURSIVE SeqsUpTo(_, _)
SeqsUpTo(A, n) ==
    IF n = 0 THEN {<<>>}
    ELSE LET shorter == SeqsUpTo(A, n - 1)
         IN  shorter \cup {Append(s, c) : s \in shorter, c \in A}

----------------------------------------------------------------------------
(* errors *)

NoErr == [kind |-> "nil", msg |-> "", code |-> 0, wrap |-> <<>>]

Err(kind) == [kind |-> kind, msg |-> "", code |-> 0, wrap |-> <<>>]

\* fmt.Errorf("<prefix>: %w", e)
Wrap(prefix, e) == [e EXCEPT !.wrap = <<prefix>> \o @]

ErrEmptyCredentials == Err("username and password are required")

ErrEmptyToken == Err("received empty token from server")

ErrInvalidServer == Err("server URL is required")

----------------------------------------------------------------------------
(* net/url as used by NewAuthenticator, for URLs over the characters below *)

Letters == {"a", "b", "c", "e", "h", "m", "o", "p", "s", "t"}
Digits == {"1"}

\* url.getScheme: [ok, scheme, rest]
RECURSIVE getSchemeFrom(_, _)
getSchemeFrom(raw, i) ==
    IF i > Len(raw) THEN [ok |-> TRUE, scheme |-> <<>>, rest |-> raw]
    ELSE IF raw[i] \in Letters THEN getSchemeFrom(raw, i + 1)
    ELSE IF raw[i] \in Digits \cup {"+", "-", "."}
         THEN IF i = 1 THEN [ok |-> TRUE, scheme |-> <<>>, rest |-> raw]
              ELSE getSchemeFrom(raw, i + 1)
    ELSE IF raw[i] = ":"
         THEN IF i = 1 THEN [ok |-> FALSE, scheme |-> <<>>, rest |-> raw]
              ELSE [ok |-> TRUE, scheme |-> SubSeq(raw, 1, i - 1),
                    rest |-> SubSeq(raw, i + 1, Len(raw))]
    ELSE [ok |-> TRUE, scheme |-> <<>>, rest |-> raw]

getScheme(raw) == getSchemeFrom(raw, 1)

\* url.validOptionalPort: "" or ":" followed by digits only
validOptionalPort(port) ==
    \/ port = <<>>
    \/ /\ port[1] = ":"
       /\ \A i \in 2..Len(port) : port[i] \in Digits

\* url.parseHost without brackets: the text after the last colon must be a port
parseHostOK(host) ==
    LET i == LastIndex(host, ":")
    IN  i = 0 \/ validOptionalPort(SubSeq(host, i, Len(host)))

BadURL == [ok |-> FALSE, Scheme |-> <<>>, Opaque |-> <<>>, Host |-> <<>>,
           Path |-> <<>>, OmitHost |-> FALSE]

\* url.Parse
ParseURL(raw) ==
    LET gs == getScheme(raw)
        rest == gs.rest
        firstSeg == IF Index(rest, "/") = 0 THEN rest
                    ELSE SubSeq(rest, 1, Index(rest, "/") - 1)
        hasAuthority == /\ (gs.scheme # <<>> \/ ~HasPrefix(rest, <<"/", "/", "/">>))
                        /\ HasPrefix(rest, <<"/", "/">>)
        afterSlashes == SubSeq(rest, 3, Len(rest))
        cut == Index(afterSlashes, "/")
        authority == IF cut = 0 THEN afterSlashes ELSE SubSeq(afterSlashes, 1, cut - 1)
        pathAfter == IF cut = 0 THEN <<>> ELSE SubSeq(afterSlashes, cut, Len(afterSlashes))
    IN  IF ~gs.ok THEN BadURL
        ELSE IF ~HasPrefix(rest, <<"/">>) /\ gs.scheme # <<>>
             THEN [ok |-> TRUE, Scheme |-> gs.scheme, Opaque |-> rest, Host |-> <<>>,
                   Path |-> <<>>, OmitHost |-> FALSE]
        ELSE IF ~HasPrefix(rest, <<"/">>) /\ Contains(firstSeg, <<":">>) THEN BadURL
        ELSE IF hasAuthority
             THEN IF parseHostOK(authority)
                  THEN [ok |-> TRUE, Scheme |-> gs.scheme, Opaque |-> <<>>,
                        Host |-> authority, Path |-> pathAfter, OmitHost |-> FALSE]
                  ELSE BadURL
        ELSE [ok |-> TRUE, Scheme |-> gs.scheme, Opaque |-> <<>>, Host |-> <<>>,
              Path |-> rest,
              OmitHost |-> (gs.scheme # <<>> /\ HasPrefix(rest, <<"/">>))]

\* (*url.URL).String
URLString(u) ==
    LET schemePart == IF u.Scheme # <<>> THEN u.Scheme \o <<":">> ELSE <<>>
        hostPart ==
            IF u.Scheme # <<>> \/ u.Host # <<>>
            THEN IF u.OmitHost /\ u.Host = <<>> THEN <<>>
                 ELSE (IF u.Host # <<>> \/ u.Path # <<>> THEN <<"/", "/">> ELSE <<>>)
                      \o u.Host
            ELSE <<>>
        sep == IF u.Path # <<>> /\ u.Path[1] # "/" /\ u.Host # <<>> THEN <<"/">> ELSE <<>>
        dot == IF schemePart \o hostPart \o sep = <<>>
                  /\ Contains(IF Index(u.Path, "/") = 0 THEN u.Path
                              ELSE SubSeq(u.Path, 1, Index(u.Path, "/") - 1), <<":">>)
               THEN <<".", "/">> ELSE <<>>
    IN  IF u.Opaque # <<>> THEN schemePart \o u.Opaque
        ELSE schemePart \o hostPart \o sep \o dot \o u.Path

----------------------------------------------------------------------------
(* pkg/auth: Config, DefaultConfig, NewAuthenticator *)

HTTPS == <<"h", "t", "t", "p", "s">>
HTTP == <<"h", "t", "t", "p">>

\* the text the test shortcut of Authenticate looks for
TestDotCom == <<"t", "e", "s", "t", ".", "c", "o", "m">>

\* the token the test shortcut returns
TestToken == "test-token"

StatusOK == 200

\* a nil *Config
NilConfig == [isNil |-> TRUE, Server |-> <<>>, AuthPath |-> <<>>, Timeout |-> 0,
              InsecureSkipVerify |-> FALSE]

\* &Config{Server: s, AuthPath: p, Timeout: t, InsecureSkipVerify: i}
Config(s, p, t, i) == [isNil |-> FALSE, Server |-> s, AuthPath |-> p, Timeout |-> t,
                       InsecureSkipVerify |-> i]

\* DefaultConfig(): AuthPath "/auth", Timeout 10 seconds
DefaultConfig == Config(<<>>, <<"/", "a", "u", "t", "h">>, 10, FALSE)

NoAuthenticator == [config |-> NilConfig,
                    client |-> [Timeout |-> 0, InsecureSkipVerify |-> FALSE]]

\* NewAuthenticator(config): [err, a]
NewAuthenticator(config) ==
    LET c == IF config.isNil THEN DefaultConfig ELSE config
        serverURL == ParseURL(c.Server)
        withScheme == IF serverURL.Scheme = <<>>
                      THEN [serverURL EXCEPT !.Scheme = HTTPS] ELSE serverURL
        normServer == TrimRight(URLString(withScheme), "/")
        normPath == IF c.AuthPath # <<>> /\ ~HasPrefix(c.AuthPath, <<"/">>)
                    THEN <<"/">> \o c.AuthPath ELSE c.AuthPath
    IN  IF c.Server = <<>> THEN [err |-> ErrInvalidServer, a |-> NoAuthenticator]
        ELSE IF ~serverURL.ok
             THEN [err |-> Wrap("invalid server URL", Err("parse")), a |-> NoAuthenticator]
        ELSE [err |-> NoErr,
              a |-> [config |-> [c EXCEPT !.Server = normServer, !.AuthPath = normPath],
                     client |-> [Timeout |-> c.Timeout,
                                 InsecureSkipVerify |-> c.InsecureSkipVerify]]]

----------------------------------------------------------------------------
(* pkg/auth: Authenticate *)

\* What the network does with the one request of a call: the transport fails
\* (refused, reset, timeout), or a response arrives with a status and a body.
\* A body is absent, unreadable (the read fails part-way), not JSON, or a JSON
\* object with the fields token and error ("" when the field is missing).
Body(kind, token, error) == [kind |-> kind, token |-> token, error |-> error]

Tokens == {"", "tok-1", "tok-2"}
ErrorTexts == {"", "bad creds"}
Statuses == {200, 404, 500}

Bodies == {Body("none", "", ""), Body("unreadable", "", ""), Body("garbage", "", "")}
          \cup {Body("json", t, e) : t \in Tokens, e \in ErrorTexts}

TransportFailure == [kind |-> "fail", status |-> 0, body |-> Body("none", "", "")]

Response(status, body) == [kind |-> "resp", status |-> status, body |-> body]

NetOutcomes == {TransportFailure} \cup {Response(s, b) : s \in Statuses, b \in Bodies}

\* a decoder that takes any body for an empty object
UnmarshalLenient(body) == [ok |-> TRUE, Token |-> body.token, Error |-> body.error]

\* json.Unmarshal(body, &authResp): [ok, Token, Error]
Unmarshal(body) ==
    IF body.kind = "json" THEN [ok |-> TRUE, Token |-> body.token, Error |-> body.error]
    ELSE [ok |-> FALSE, Token |-> "", Error |-> ""]

\* a.client.Do(req): the transport refuses a URL whose scheme is not http(s) or
\* whose host is empty; otherwise the network decides
Do(authURL, net) ==
    LET u == ParseURL(authURL)
    IN  IF u.Scheme \notin {HTTP, HTTPS} \/ u.Host = <<>> THEN TransportFailure ELSE net

Result(token, err, sent, url) == [token |-> token, err |-> err, sent |-> sent, url |-> url]

\* the check written with && in place of ||
CredentialsEmptyBoth(user, pass) == user = "" /\ pass = ""

\* username == "" || password == ""
CredentialsEmpty(user, pass) == user = "" \/ pass = ""

\* a client call that is repeated once when the transport fails
SendWithRetry(authURL, net) ==
    [resp |-> Do(authURL, net), sent |-> IF Do(authURL, net).kind = "fail" THEN 2 ELSE 1]

\* resp, err := a.client.Do(req): one call of the client, no retry
Send(authURL, net) == [resp |-> Do(authURL, net), sent |-> 1]

\* the status check on a decoded response
StatusError(status, authResp) ==
    IF authResp.Error # ""
    THEN [Err("authentication failed") EXCEPT !.msg = authResp.Error]
    ELSE [Err("authentication failed with status code") EXCEPT !.code = status]

\* an end of Authenticate that hands out the token of the test shortcut
TokenResultFixed(authResp, sent, authURL) == Result(TestToken, NoErr, sent, authURL)

\* the end of Authenticate without the empty-token check
TokenResultUnchecked(authResp, sent, authURL) == Result(authResp.Token, NoErr, sent, authURL)

\* the end of Authenticate, for a decoded response with status 200
TokenResult(authResp, sent, authURL) ==
    IF authResp.Token = "" THEN Result("", ErrEmptyToken, sent, authURL)
    ELSE Result(authResp.Token, NoErr, sent, authURL)

\* (*httpAuthenticator).Authenticate(username, password), with the outcome of
\* the network as a parameter: [token, err, sent, url], sent being the number of
\* requests handed to the HTTP client
AuthenticateMethod(a, user, pass, net) ==
    LET authURL == a.config.Server \o a.config.AuthPath
        tx == Send(authURL, net)
        resp == tx.resp
        authResp == Unmarshal(resp.body)
    IN  IF CredentialsEmpty(user, pass) THEN Result("", ErrEmptyCredentials, 0, <<>>)
        ELSE IF Contains(a.config.Server, TestDotCom) THEN Result(TestToken, NoErr, 0, <<>>)
        ELSE IF ~ParseURL(authURL).ok
             THEN Result("", Wrap("failed to create request", Err("parse")), 0, authURL)
        ELSE IF resp.kind = "fail"
             THEN Result("", Wrap("failed to send request", Err("transport")), tx.sent, authURL)
        ELSE IF resp.body.kind = "unreadable"
             THEN Result("", Wrap("failed to read response body", Err("read")), tx.sent, authURL)
        ELSE IF ~authResp.ok
             THEN Result("", Wrap("failed to decode response", Err("json")), tx.sent, authURL)
        ELSE IF resp.status # StatusOK
             THEN Result("", StatusError(resp.status, authResp), tx.sent, authURL)
        ELSE TokenResult(authResp, tx.sent, authURL)

\* the package function Authenticate(server, username, password), kept for
\* backward compatibility
Authenticate(srv, user, pass, net) ==
    LET na == NewAuthenticator(Config(srv, <<>>, 0, FALSE))
    IN  IF CredentialsEmpty(user, pass) THEN Result("", ErrEmptyCredentials, 0, <<>>)
        ELSE IF Contains(srv, TestDotCom) THEN Result(TestToken, NoErr, 0, <<>>)
        ELSE IF na.err # NoErr
             THEN Result("", Wrap("failed to create authenticator", na.err), 0, <<>>)
        ELSE AuthenticateMethod(na.a, user, pass, net)

----------------------------------------------------------------------------
(* direct use of pkg/auth: construct an authenticator, then call it once *)

NoResult == Result("", NoErr, 0, <<>>)

Probe(pc, config, user, pass, net) ==
    [pc |-> pc, config |-> config, user |-> user, pass |-> pass, net |-> net,
     a |-> NoAuthenticator, err |-> NoErr, res |-> NoResult]

\* no call of pkg/auth in progress
Idle == Probe("idle", NilConfig, "", "", TransportFailure)

\* auth, err := NewAuthenticator(config)
Construct ==
    /\ probe.pc = "new"
    /\ LET r == NewAuthenticator(probe.config)
       IN  probe' = [probe EXCEPT !.pc = IF r.err = NoErr THEN "ready" ELSE "rejected",
                                  !.a = r.a, !.err = r.err]
    /\ UNCHANGED <<file, username, password, server, last, reader, procs>>

\* token, err := auth.Authenticate(username, password)
Call ==
    /\ probe.pc = "ready"
    /\ probe' = [probe EXCEPT !.pc = "done",
                              !.res = AuthenticateMethod(probe.a, probe.user, probe.pass,
                                                         probe.net)]
    /\ UNCHANGED <<file, username, password, server, last, reader, procs>>

\* token, err := auth.Authenticate(server, username, password), the package
\* function, in place of constructing an authenticator
CallAuthenticate ==
    /\ probe.pc = "new"
    /\ probe' = [probe EXCEPT !.pc = "returned",
                              !.res = Authenticate(probe.config.Server, probe.user,
                                                   probe.pass, probe.net)]
    /\ UNCHANGED <<file, username, password, server, last, reader, procs>>

----------------------------------------------------------------------------
(* the kubeconfig file and clientcmd *)

\* the path both commands resolve (KUBECONFIG, else ~/.kube/config)
KubeconfigPath == "kubeconfig"

\* a kubeconfig document as it is on disk
Doc(clusters, users, contexts, current) ==
    [clusters |-> clusters, users |-> users, contexts |-> contexts, current |-> current]

EmptyDoc == Doc(<<>>, <<>>, <<>>, <<>>)

\* what is at the path: nothing, bytes that are not a kubeconfig, or a document
Absent == [state |-> "absent", doc |-> EmptyDoc]
Malformed == [state |-> "malformed", doc |-> EmptyDoc]
Stored(doc) == [state |-> "ok", doc |-> doc]

\* api.NewConfig()
NewConfig == [Clusters |-> <<>>, AuthInfos |-> <<>>, Contexts |-> <<>>,
              CurrentContext |-> <<>>]

\* api.NewCluster(), api.NewAuthInfo(), api.NewContext()
NewCluster == [Server |-> <<>>, InsecureSkipTLSVerify |-> FALSE, LocationOfOrigin |-> ""]
NewAuthInfo == [Token |-> "", LocationOfOrigin |-> ""]
NewContext == [Cluster |-> <<>>, AuthInfo |-> <<>>, LocationOfOrigin |-> ""]

\* m[k] = v on a Go map
Put(m, k, v) == [x \in DOMAIN m \cup {k} |-> IF x = k THEN v ELSE m[x]]

\* clientcmd.LoadFromFile on a readable, well-formed file: the decoded config,
\* every entry stamped with the file it came from
Decode(doc, path) ==
    [Clusters |-> [k \in DOMAIN doc.clusters |->
                      [Server |-> doc.clusters[k].server,
                       InsecureSkipTLSVerify |-> doc.clusters[k].insecure,
                       LocationOfOrigin |-> path]],
     AuthInfos |-> [k \in DOMAIN doc.users |->
                      [Token |-> doc.users[k].token, LocationOfOrigin |-> path]],
     Contexts |-> [k \in DOMAIN doc.contexts |->
                      [Cluster |-> doc.contexts[k].cluster,
                       AuthInfo |-> doc.contexts[k].user,
                       LocationOfOrigin |-> path]],
     CurrentContext |-> doc.current]

\* the document clientcmd.WriteToFile serializes; LocationOfOrigin is not written
Encode(config) ==
    Doc([k \in DOMAIN config.Clusters |->
            [server |-> config.Clusters[k].Server,
             insecure |-> config.Clusters[k].InsecureSkipTLSVerify]],
        [k \in DOMAIN config.AuthInfos |-> [token |-> config.AuthInfos[k].Token]],
        [k \in DOMAIN config.Contexts |->
            [cluster |-> config.Contexts[k].Cluster, user |-> config.Contexts[k].AuthInfo]],
        config.CurrentContext)

\* a load that takes a missing or malformed file for an empty kubeconfig
LoadFromFileLenient(f, path) ==
    IF f.state = "ok" THEN [err |-> NoErr, config |-> Decode(f.doc, path)]
    ELSE [err |-> NoErr, config |-> NewConfig]

\* clientcmd.LoadFromFile(path): [err, config]
LoadFromFile(f, path) ==
    IF f.state = "absent" THEN [err |-> Err("no such file"), config |-> NewConfig]
    ELSE IF f.state = "malformed" THEN [err |-> Err("yaml"), config |-> NewConfig]
    ELSE [err |-> NoErr, config |-> Decode(f.doc, path)]

\* clientcmd.WriteToFile(config, path) when it succeeds: the file afterwards
WriteToFile(config) == Stored(Encode(config))

----------------------------------------------------------------------------
(* cmd: observations, inputs *)

\* what the most recent command did: its name, its argument (for login, the
\* server variable), the username and password it ended with, the error it
\* returned, the file it found, the token Authenticate returned to it, the
\* requests it sent, whether it called Authenticate and WriteToFile, what the
\* network answered to its request, whether --token was on its command line,
\* and what the invocation was given
Observation(op, name, user, pass, err, pre, token, sent, authCalled, wrote, net, tokenFlag, given) ==
    [op |-> op, name |-> name, user |-> user, pass |-> pass, err |-> err, pre |-> pre,
     token |-> token, sent |-> sent, authCalled |-> authCalled, wrote |-> wrote,
     net |-> net, tokenFlag |-> tokenFlag, given |-> given]

\* what an invocation of login was given: the value of its
\* --insecure-skip-tls-verify flag, and whether a username and a password
\* reached it, by flag or by prompt
Given(skipTLS, user, pass) == [skipTLS |-> skipTLS, user |-> user, pass |-> pass]

NothingGiven == Given(FALSE, FALSE, FALSE)

\* no request was sent, so the network answered nothing
NoAnswer == [kind |-> "none", status |-> 0, body |-> Body("none", "", "")]

NoObservation ==
    Observation("none", <<>>, "", "", NoErr, Absent, "", 0, FALSE, FALSE, NoAnswer, FALSE,
                NothingGiven)

SrvA == HTTPS \o <<":", "/", "/", "a">>
SrvB == HTTPS \o <<":", "/", "/", "b">>
SrvTest == HTTPS \o <<":", "/", "/">> \o TestDotCom
SrvBad == <<":", "a">>

\* argument lists of login: no argument, or the server
LoginArgs == {<<>>, <<<<>>>>, <<SrvA>>, <<SrvB>>, <<SrvTest>>, <<SrvBad>>}

\* a flag on the command line: given or not, and its value
Flag(set, val) == [set |-> set, val |-> val]
UsernameFlags == {Flag(FALSE, ""), Flag(TRUE, ""), Flag(TRUE, "admin")}
PasswordFlags == {Flag(FALSE, ""), Flag(TRUE, ""), Flag(TRUE, "pw")}

\* what util.ReadInput / util.ReadPassword return: (value, err)
Read(err, val) == [err |-> err, val |-> val]
NotRead == Read(FALSE, "")
UsernameReads == {Read(TRUE, ""), Read(FALSE, ""), Read(FALSE, "admin")}
PasswordReads == {Read(TRUE, ""), Read(FALSE, ""), Read(FALSE, "pw")}

\* the answers of the server the login command talks to
LoginNet == {TransportFailure,
             Response(200, Body("json", "tok-1", "")),
             Response(200, Body("json", "tok-2", "")),
             Response(404, Body("json", "", "bad creds"))}

\* the file system: the path cannot be resolved (no KUBECONFIG, no home
\* directory), the directory cannot be made, the write fails, or all succeed.
\* clientcmd.WriteToFile either replaces the file or, failing, leaves it as
\* it was.
FsOutcomes == {"no home", "mkdir fails", "write fails", "ok"}

\* kubeconfigs other tools (or the tests) left at the path
TwoClusters ==
    Doc((SrvA :> [server |-> SrvA, insecure |-> FALSE]) @@
        (SrvB :> [server |-> SrvB, insecure |-> TRUE]),
        (SrvA :> [token |-> "tok-1"]) @@ (SrvB :> [token |-> "tok-2"]),
        (SrvA :> [cluster |-> SrvA, user |-> SrvA]) @@
        (SrvB :> [cluster |-> SrvB, user |-> SrvB]),
        SrvA)

Context1 == <<"c", "1">>
Context2 == <<"c", "2">>

\* the file TestUseContextCmd writes: two empty contexts
TestKubeconfig ==
    Doc(<<>>, <<>>,
        (Context1 :> [cluster |-> <<>>, user |-> <<>>]) @@
        (Context2 :> [cluster |-> <<>>, user |-> <<>>]),
        Context1)

InitialFiles == {Absent, Malformed, Stored(TwoClusters), Stored(TestKubeconfig)}

\* argument lists of use-context: no argument, or the context name
UseContextArgs == {<<>>, <<SrvA>>, <<SrvB>>, <<Context1>>, <<Context2>>, <<<<"x">>>>}

----------------------------------------------------------------------------
(* cmd/login.go *)

\* a kubeconfig whose context is left as api.NewContext() made it
LoginKubeconfigUnlinked(srv, authToken) ==
    [Clusters |-> Put(NewConfig.Clusters, srv, [NewCluster EXCEPT !.Server = srv]),
     AuthInfos |-> Put(NewConfig.AuthInfos, srv, [NewAuthInfo EXCEPT !.Token = authToken]),
     Contexts |-> Put(NewConfig.Contexts, srv, NewContext),
     CurrentContext |-> srv]

\* a kubeconfig that stores a fixed token, not the one Authenticate returned
LoginKubeconfigFixedToken(srv, authToken) ==
    [Clusters |-> Put(NewConfig.Clusters, srv,
                      [NewCluster EXCEPT !.Server = srv, !.InsecureSkipTLSVerify = TRUE]),
     AuthInfos |-> Put(NewConfig.AuthInfos, srv, [NewAuthInfo EXCEPT !.Token = TestToken]),
     Contexts |-> Put(NewConfig.Contexts, srv,
                      [NewContext EXCEPT !.Cluster = srv, !.AuthInfo = srv]),
     CurrentContext |-> srv]

\* the kubeconfig the login command builds for a server and its token
LoginKubeconfig(srv, authToken) ==
    LET cluster == [NewCluster EXCEPT !.Server = srv, !.InsecureSkipTLSVerify = TRUE]
        authInfo == [NewAuthInfo EXCEPT !.Token = authToken]
        context == [NewContext EXCEPT !.Cluster = srv, !.AuthInfo = srv]
    IN  [Clusters |-> Put(NewConfig.Clusters, srv, cluster),
         AuthInfos |-> Put(NewConfig.AuthInfos, srv, authInfo),
         Contexts |-> Put(NewConfig.Contexts, srv, context),
         CurrentContext |-> srv]

\* an error return of a RunE that had created the file before it failed
LoginReturnTruncating(u, p, s, e, token, sent, called, wrote, net, given) ==
    /\ username' = u
    /\ password' = p
    /\ server' = s
    /\ file' = Stored(EmptyDoc)
    /\ last' = Observation("login", s, u, p, e, file, token, sent, called, wrote, net,
                            FALSE, given)
    /\ UNCHANGED <<probe, reader, procs>>

\* a return of RunE with an error: the package variables keep what the run
\* assigned, the file is not touched
LoginReturn(u, p, s, e, token, sent, called, wrote, net, given) ==
    /\ username' = u
    /\ password' = p
    /\ server' = s
    /\ file' = file
    /\ last' = Observation("login", s, u, p, e, file, token, sent, called, wrote, net,
                            FALSE, given)
    /\ UNCHANGED <<probe, reader, procs>>

\* a write that leaves a file alone that already has the server
LoginWriteOnce(u, p, s, kubeconfig, token, sent, net, given) ==
    /\ username' = u
    /\ password' = p
    /\ server' = s
    /\ file' = IF file.state = "ok" /\ s \in DOMAIN file.doc.clusters THEN file
               ELSE WriteToFile(kubeconfig)
    /\ last' = Observation("login", s, u, p, NoErr, file, token, sent, TRUE, TRUE, net,
                            FALSE, given)
    /\ UNCHANGED <<probe, reader, procs>>

\* the end of RunE: the kubeconfig is written to the path
LoginWrite(u, p, s, kubeconfig, token, sent, net, given) ==
    /\ username' = u
    /\ password' = p
    /\ server' = s
    /\ file' = WriteToFile(kubeconfig)
    /\ last' = Observation("login", s, u, p, NoErr, file, token, sent, TRUE, TRUE, net,
                            FALSE, given)
    /\ UNCHANGED <<probe, reader, procs>>

\* NewLoginCmd(): registering the flags stores their default "" in the
\* package variables
NewLoginCmd ==
    /\ probe.pc = "idle"
    /\ username' = ""
    /\ password' = ""
    /\ UNCHANGED <<file, server, last, probe, reader, procs>>

\* the servers, usernames and passwords the login command can be run with
LoginServers == {args[1] : args \in LoginArgs \ {<<>>}}
LoginUsernames == {f.val : f \in UsernameFlags} \cup {r.val : r \in UsernameReads}
LoginPasswords == {f.val : f \in PasswordFlags} \cup {r.val : r \in PasswordReads}

\* authenticator, err := auth.NewAuthenticator(&auth.Config{Server: server}),
\* for each server
LoginAuthenticator == [s \in LoginServers |-> NewAuthenticator(Config(s, <<>>, 0, FALSE))]

\* authToken, err := authenticator.Authenticate(username, password), for each
\* server, username, password and answer of the network
LoginAuthenticate ==
    [s \in LoginServers, u \in LoginUsernames, p \in LoginPasswords, net \in LoginNet |->
        AuthenticateMethod(LoginAuthenticator[s].a, u, p, net)]

\* what the network answered to the request of that call, if it sent one
LoginAnswer ==
    [s \in LoginServers, u \in LoginUsernames, p \in LoginPasswords, net \in LoginNet |->
        IF LoginAuthenticate[s, u, p, net].sent > 0
        THEN Do(LoginAuthenticate[s, u, p, net].url, net)
        ELSE NoAnswer]

\* cmd.Execute() with --token on the command line, a flag NewLoginCmd does not
\* register: flag parsing fails and RunE is not run
LoginFlagError(u, p, given) ==
    /\ username' = u
    /\ password' = p
    /\ UNCHANGED <<server, file, probe, reader, procs>>
    /\ last' = Observation("login", server, u, p, Err("unknown flag"), file, "", 0,
                           FALSE, FALSE, NoAnswer, TRUE, given)

\* the values of --insecure-skip-tls-verify an invocation is run with: absent
\* (false) or, on command lines that also give -u and -p, present
SkipTLSFlags(fu, fp) == IF fu.val # "" /\ fp.val # "" THEN BOOLEAN ELSE {FALSE}

\* one execution of the login command: flag parsing, then RunE. The values
\* the run computes are bound one after the other: the username and password
\* after the flags (u0, p0), after the prompts (u1, p1), the authenticator
\* (na), what Authenticate returns (res), what the network answered (ans).
Login ==
    /\ probe.pc = "idle"
    /\ \E fu \in UsernameFlags, fp \in PasswordFlags, withToken \in BOOLEAN :
       \E skipTLS \in SkipTLSFlags(fu, fp) :
       \E args \in (IF withToken THEN {<<SrvTest>>} ELSE LoginArgs) :
       \E u0 \in {IF fu.set THEN fu.val ELSE username} :
       \E p0 \in {IF fp.set THEN fp.val ELSE password} :
       \E g0 \in {Given(skipTLS, fu.set, fp.set)} :
        IF withToken
        THEN LoginFlagError(u0, p0, g0)
        ELSE IF Len(args) = 0
        THEN LoginReturn(u0, p0, server, Err("server URL is required"), "", 0, FALSE, FALSE,
                         NoAnswer, g0)
        ELSE IF args[1] = <<>>
        THEN LoginReturn(u0, p0, args[1], Err("server URL cannot be empty"), "", 0,
                         FALSE, FALSE, NoAnswer, g0)
        ELSE
         \E srv \in {args[1]} :
         \E ru \in (IF u0 = "" THEN UsernameReads ELSE {NotRead}) :
         \E u1 \in {IF u0 = "" THEN ru.val ELSE u0} :
         \E g1 \in {IF u0 = "" /\ ~ru.err THEN [g0 EXCEPT !.user = TRUE] ELSE g0} :
            IF u0 = "" /\ ru.err
            THEN LoginReturn(u1, p0, srv, Wrap("failed to read username", Err("read")),
                             "", 0, FALSE, FALSE, NoAnswer, g1)
            ELSE IF u1 = ""
            THEN LoginReturn(u1, p0, srv, Err("username cannot be empty"), "", 0,
                             FALSE, FALSE, NoAnswer, g1)
            ELSE
             \E rp \in (IF p0 = "" THEN PasswordReads ELSE {NotRead}) :
             \E p1 \in {IF p0 = "" THEN rp.val ELSE p0} :
             \E g2 \in {IF p0 = "" /\ ~rp.err THEN [g1 EXCEPT !.pass = TRUE] ELSE g1} :
             \E na \in {LoginAuthenticator[srv]} :
                IF p0 = "" /\ rp.err
                THEN LoginReturn(u1, p1, srv, Wrap("failed to read password", Err("read")),
                                 "", 0, FALSE, FALSE, NoAnswer, g2)
                ELSE IF p1 = ""
                THEN LoginReturn(u1, p1, srv, Err("password cannot be empty"), "", 0,
                                 FALSE, FALSE, NoAnswer, g2)
                ELSE IF na.err # NoErr
                THEN LoginReturn(u1, p1, srv,
                                 Wrap("failed to create authenticator", na.err),
                                 "", 0, FALSE, FALSE, NoAnswer, g2)
                ELSE
                 \E net \in LoginNet :
                 \E res \in {LoginAuthenticate[srv, u1, p1, net]} :
                 \E ans \in {LoginAnswer[srv, u1, p1, net]} :
                    IF res.err # NoErr
                    THEN LoginReturn(u1, p1, srv, Wrap("authentication failed", res.err),
                                     "", res.sent, TRUE, FALSE, ans, g2)
                    ELSE
                     \E fs \in FsOutcomes :
                        IF fs = "no home"
                        THEN LoginReturn(u1, p1, srv,
                                         Wrap("failed to get home directory", Err("home")),
                                         res.token, res.sent, TRUE, FALSE, ans, g2)
                        ELSE IF fs = "mkdir fails"
                        THEN LoginReturn(u1, p1, srv,
                                         Wrap("failed to create kubeconfig directory",
                                              Err("mkdir")),
                                         res.token, res.sent, TRUE, FALSE, ans, g2)
                        ELSE IF fs = "write fails"
                        THEN LoginReturn(u1, p1, srv,
                                         Wrap("failed to write kubeconfig", Err("write")),
                                         res.token, res.sent, TRUE, TRUE, ans, g2)
                        ELSE LoginWrite(u1, p1, srv, LoginKubeconfig(srv, res.token),
                                        res.token, res.sent, ans, g2)

----------------------------------------------------------------------------
(* cmd/use_context.go *)

\* the existence check left out
ContextExistsUnchecked(config, contextName) == TRUE

\* _, exists := config.Contexts[contextName]
ContextExists(config, contextName) == contextName \in DOMAIN config.Contexts

\* a switch that keeps only the chosen context
SwitchContextAlone(config, contextName) ==
    [config EXCEPT !.CurrentContext = contextName,
                   !.Contexts = [k \in {contextName} |-> @[k]]]

\* config.CurrentContext = contextName
SwitchContext(config, contextName) == [config EXCEPT !.CurrentContext = contextName]

\* a return of RunE with an error
UseContextReturn(obs) ==
    /\ file' = file
    /\ last' = obs
    /\ UNCHANGED <<username, password, server, probe, reader, procs>>

\* one execution of the use-context command
UseContext ==
    /\ probe.pc = "idle"
    /\ \E args \in UseContextArgs :
        LET contextName == IF Len(args) = 0 THEN <<>> ELSE args[1]
            loaded == LoadFromFile(file, KubeconfigPath)
            switched == SwitchContext(loaded.config, contextName)
            obs(e, wrote) == Observation("use-context", contextName, "", "", e, file, "", 0,
                                         FALSE, wrote, NoAnswer, FALSE, NothingGiven)
        IN  IF Len(args) = 0
            THEN UseContextReturn(obs(Err("context name is required"), FALSE))
            ELSE \E fs \in FsOutcomes \ {"mkdir fails"} :
                IF fs = "no home"
                THEN UseContextReturn(obs(Wrap("failed to get home directory", Err("home")),
                                          FALSE))
                ELSE IF loaded.err # NoErr
                THEN UseContextReturn(obs(Wrap("failed to load kubeconfig", loaded.err), FALSE))
                ELSE IF ~ContextExists(loaded.config, contextName)
                THEN UseContextReturn(obs(Err("context does not exist"), FALSE))
                ELSE IF fs = "write fails"
                THEN UseContextReturn(obs(Wrap("failed to write kubeconfig", Err("write")),
                                          TRUE))
                ELSE /\ file' = WriteToFile(switched)
                     /\ last' = obs(NoErr, TRUE)
                     /\ UNCHANGED <<username, password, server, probe, reader, procs>>

----------------------------------------------------------------------------
(* pkg/util/input.go: ReadSecurely, one step per statement that touches the  *)
(* terminal or the input                                                     *)

\* the bytes the switch of ReadSecurely tells apart, and some it does not
CtrlC == 3
Backspace == 8
LF == 10
CR == 13
Escape == 27
LowerA == 97
LowerB == 98
Delete == 127

\* r.reader.Read returning n = 0 and no error
Nothing == 0 - 1

\* what successive calls of r.reader.Read deliver; after the last, end of file
InputEvents == {CtrlC, Backspace, LF, CR, Escape, LowerA, LowerB, Delete, Nothing}

\* the modes of the terminal: canonical with echo, or raw
TerminalModes == {"cooked", "raw"}

Prompt == "Enter password: "
\* an echo of a typed character in place of the mask
MaskAsTyped == "a"

Mask == "*"
Erase == "\\b \\b"
Newline == "\n"

\* a return value of ReadSecurely: (string, error)
Return(val, err) == [val |-> val, err |-> err]

NotReturned == Return(<<>>, NoErr)

\* a call of ReadSecurely: where it is, the input and how much of it has been
\* consumed, the password buffer, what was written to stdout, the mode of the
\* terminal, oldState and whether it is recorded, how often terminal.Restore
\* ran, the mode of the terminal at each byte read, the return value
Reader(pc, input, mode) ==
    [pc |-> pc, input |-> input, pos |-> 0, password |-> <<>>, out |-> <<>>,
     mode |-> mode, oldState |-> "none", recorded |-> FALSE, restores |-> 0,
     readIn |-> <<>>, ret |-> NotReturned]

\* no call of ReadSecurely in progress
NoReader == Reader("idle", <<>>, "cooked")

\* a return that skips the deferred function when it returns an error
LeaveUnrestored(r, ret) ==
    [r EXCEPT !.pc = IF ret.err = NoErr THEN "deferred" ELSE "done", !.ret = ret]

\* a return statement after the defer statement: the deferred function is
\* still to run
Leave(r, ret) == [r EXCEPT !.pc = "deferred", !.ret = ret]

\* only the backspace byte erases
IsEraseBackspaceOnly(c) == c = Backspace

\* case '\b', 127
IsErase(c) == c \in {Backspace, Delete}

\* c >= 32 && c <= 126
Printable(c) == c >= 32 /\ c <= 126

\* an interrupt that returns what was typed so far
InterruptedKeeping(buffer) == Return(buffer, Err("interrupted by user"))

\* case 3: return "", fmt.Errorf("interrupted by user")
Interrupted(buffer) == Return(<<>>, Err("interrupted by user"))

\* fmt.Fprint(os.Stdout, prompt)
WritePrompt ==
    /\ reader.pc = "start"
    /\ \E written \in BOOLEAN :
        reader' = IF written
                  THEN [reader EXCEPT !.pc = "prompted", !.out = Append(@, Prompt)]
                  ELSE [reader EXCEPT !.pc = "done",
                                      !.ret = Return(<<>>, Wrap("failed to write prompt",
                                                                Err("write")))]
    /\ UNCHANGED <<file, username, password, server, last, probe, procs>>

\* oldState, err := terminal.GetState(r.fd), and the defer statement
GetState ==
    /\ reader.pc = "prompted"
    /\ \E isTerminal \in BOOLEAN :
        reader' = IF isTerminal
                  THEN [reader EXCEPT !.pc = "loop", !.oldState = reader.mode,
                                      !.recorded = TRUE]
                  ELSE [reader EXCEPT !.pc = "done",
                                      !.ret = Return(<<>>,
                                                     Wrap("failed to set terminal to raw mode",
                                                          Err("not a terminal")))]
    /\ UNCHANGED <<file, username, password, server, last, probe, procs>>

\* one iteration of the for loop: r.reader.Read(char[:]) and the switch
ReadChar ==
    /\ reader.pc = "loop"
    /\ \E c \in {IF reader.pos < Len(reader.input) THEN reader.input[reader.pos + 1]
                 ELSE Nothing} :
       \E r \in {[reader EXCEPT !.pos = @ + 1, !.readIn = Append(@, reader.mode)]} :
        reader' =
            IF reader.pos = Len(reader.input)
            THEN Leave(reader, Return(<<>>, Wrap("failed to read character", Err("EOF"))))
            ELSE IF c = Nothing THEN [reader EXCEPT !.pos = @ + 1]
            ELSE IF c \in {CR, LF}
            THEN Leave([r EXCEPT !.out = Append(@, Newline)], Return(r.password, NoErr))
            ELSE IF c = CtrlC THEN Leave(r, Interrupted(r.password))
            ELSE IF IsErase(c)
            THEN IF Len(r.password) > 0
                 THEN [r EXCEPT !.password = SubSeq(@, 1, Len(@) - 1),
                                !.out = Append(@, Erase)]
                 ELSE r
            ELSE IF Printable(c)
            THEN [r EXCEPT !.password = Append(@, c), !.out = Append(@, Mask)]
            ELSE r
    /\ UNCHANGED <<file, username, password, server, last, probe, procs>>

\* the deferred function: terminal.Restore(r.fd, oldState)
Restore ==
    /\ reader.pc = "deferred"
    /\ reader' = [reader EXCEPT !.pc = "done", !.mode = reader.oldState,
                                !.restores = @ + 1]
    /\ UNCHANGED <<file, username, password, server, last, probe, procs>>

----------------------------------------------------------------------------
(* pkg/util/input.go: ReadLine *)

Space == 32

\* a read of the source that returns an error other than end of file
Broken == 0 - 2

\* what the source of ReadLine delivers; after the last, end of file
LineEvents == {LF, CR, Space, LowerA, Broken}

\* unicode.IsSpace on ASCII: tab, LF, VT, FF, CR, space
IsSpace(c) == c \in {9, 10, 11, 12, 13, 32}

\* a trim of the leading white space only
RECURSIVE TrimSpaceLeft(_)
TrimSpaceLeft(s) ==
    IF s # <<>> /\ IsSpace(s[1]) THEN TrimSpaceLeft(SubSeq(s, 2, Len(s))) ELSE s

\* strings.TrimSpace
RECURSIVE TrimSpace(_)
TrimSpace(s) ==
    IF s # <<>> /\ IsSpace(s[1]) THEN TrimSpace(SubSeq(s, 2, Len(s)))
    ELSE IF s # <<>> /\ IsSpace(s[Len(s)]) THEN TrimSpace(SubSeq(s, 1, Len(s) - 1))
    ELSE s

\* reader.ReadString('\n'): [err, line], the line through the first LF, or the
\* error the source returns before one
ReadString(input) ==
    IF \E i \in 1..Len(input) : input[i] \in {LF, Broken}
    THEN LET i == CHOOSE k \in 1..Len(input) :
                    /\ input[k] \in {LF, Broken}
                    /\ \A j \in 1..(k - 1) : input[j] \notin {LF, Broken}
         IN  IF input[i] = LF THEN [err |-> NoErr, line |-> SubSeq(input, 1, i)]
             ELSE [err |-> Err("read error"), line |-> SubSeq(input, 1, i - 1)]
    ELSE [err |-> Err("EOF"), line |-> input]

\* (*defaultInputReader).ReadLine(prompt), also the ReadLine of
\* terminalInputReader
ReadLine ==
    /\ reader.pc = "line"
    /\ \E written \in BOOLEAN :
       \E read \in {ReadString(reader.input)} :
        reader' =
            IF ~written
            THEN [reader EXCEPT !.pc = "returned",
                                !.ret = Return(<<>>, Wrap("failed to write prompt",
                                                          Err("write")))]
            ELSE IF read.err # NoErr
            THEN [reader EXCEPT !.pc = "returned", !.out = Append(@, Prompt),
                                !.pos = Len(read.line),
                                !.ret = Return(<<>>, Wrap("failed to read input", read.err))]
            ELSE [reader EXCEPT !.pc = "returned", !.out = Append(@, Prompt),
                                !.pos = Len(read.line),
                                !.ret = Return(TrimSpace(read.line), NoErr)]
    /\ UNCHANGED <<file, username, password, server, last, probe, procs>>

----------------------------------------------------------------------------
(* concurrent invocations: each is a process of its own (its own package     *)
(* variables), all on the one kubeconfig file; a load and a write of the     *)
(* file are each one step                                                    *)

Invocations == 1..NumInvocations

\* what the concurrent invocations are run with
RaceServers == {SrvA, SrvB}
RaceNet == {Response(200, Body("json", "tok-1", "")),
            Response(404, Body("json", "", "bad creds"))}
RaceContexts == {Context2, SrvA, <<"x">>}
RaceFiles == {Absent, Stored(TestKubeconfig), Stored(TwoClusters)}

\* an invocation: the command, its argument, where it is, the token it got,
\* the config it holds in memory, the error it returned, and the document it
\* wrote if it wrote
Invocation(op, pc, name, token, config, err, wrote, doc) ==
    [op |-> op, pc |-> pc, name |-> name, token |-> token, config |-> config,
     err |-> err, wrote |-> wrote, doc |-> doc]

NotStarted == Invocation("none", "idle", <<>>, "", NewConfig, NoErr, FALSE, EmptyDoc)

\* no concurrent invocations; order is the order in which invocations wrote,
\* start the file the invocations were started on
NoProcs == [inv |-> [i \in Invocations |-> NotStarted], order |-> <<>>, start |-> Absent]

\* a write that takes over the entries of the file it does not itself have
OverwriteMerging(f, config) ==
    IF f.state # "ok" THEN WriteToFile(config)
    ELSE LET mine == Encode(config)
             keep(old, new) == [k \in DOMAIN old \cup DOMAIN new |->
                                   IF k \in DOMAIN new THEN new[k] ELSE old[k]]
         IN  Stored(Doc(keep(f.doc.clusters, mine.clusters), keep(f.doc.users, mine.users),
                        keep(f.doc.contexts, mine.contexts), mine.current))

\* clientcmd.WriteToFile(config, path) on a file f that another invocation may
\* have written since this one started: the content is replaced
Overwrite(f, config) == WriteToFile(config)

\* login up to the kubeconfig it builds: arguments, NewAuthenticator,
\* Authenticate (username and password given by flag)
LoginAuthenticated ==
    \E i \in Invocations :
    /\ procs.inv[i].pc = "idle"
    /\ \E srv \in RaceServers, net \in RaceNet :
       \E res \in {AuthenticateMethod(NewAuthenticator(Config(srv, <<>>, 0, FALSE)).a,
                                      "admin", "pw", net)} :
        procs' = [procs EXCEPT !.inv[i] =
            IF res.err # NoErr
            THEN Invocation("login", "done", srv, "", NewConfig,
                            Wrap("authentication failed", res.err), FALSE, EmptyDoc)
            ELSE Invocation("login", "built", srv, res.token,
                            LoginKubeconfig(srv, res.token), NoErr, FALSE, EmptyDoc)]
    /\ UNCHANGED <<file, username, password, server, last, probe, reader>>

\* use-context up to the assignment of CurrentContext: LoadFromFile, the
\* existence check, config.CurrentContext = contextName
UseContextLoaded ==
    \E i \in Invocations :
    /\ procs.inv[i].pc = "idle"
    /\ \E contextName \in RaceContexts :
       \E loaded \in {LoadFromFile(file, KubeconfigPath)} :
        procs' = [procs EXCEPT !.inv[i] =
            IF loaded.err # NoErr
            THEN Invocation("use-context", "done", contextName, "", NewConfig,
                            Wrap("failed to load kubeconfig", loaded.err), FALSE, EmptyDoc)
            ELSE IF ~ContextExists(loaded.config, contextName)
            THEN Invocation("use-context", "done", contextName, "", NewConfig,
                            Err("context does not exist"), FALSE, EmptyDoc)
            ELSE Invocation("use-context", "built", contextName, "",
                            SwitchContext(loaded.config, contextName), NoErr, FALSE,
                            EmptyDoc)]
    /\ UNCHANGED <<file, username, password, server, last, probe, reader>>

\* clientcmd.WriteToFile(*kubeconfig, kubeconfigPath) of either command, and
\* its return without an error
WriteKubeconfig ==
    \E i \in Invocations :
    /\ procs.inv[i].pc = "built"
    /\ file' = Overwrite(file, procs.inv[i].config)
    /\ procs' = [procs EXCEPT !.inv[i].pc = "done", !.inv[i].wrote = TRUE,
                              !.inv[i].doc = Encode(procs.inv[i].config),
                              !.order = Append(@, i)]
    /\ UNCHANGED <<username, password, server, last, probe, reader>>

----------------------------------------------------------------------------
(* specifications *)

\* the inputs of direct calls of pkg/auth
AuthServers == {<<>>, SrvA, SrvTest, SrvBad}
AuthPaths == {<<>>, <<"/", "a", "u", "t", "h">>}
AuthUsers == {"", "testuser"}
AuthPasswords == {"", "testpass"}

\* timeouts in seconds; 0 is the zero value of an unset field
AuthTimeouts == {0, 5}

AuthProbes ==
    {Probe("new", NilConfig, "testuser", "testpass", TransportFailure)} \cup
    {Probe("new", Config(s, p, t, FALSE), u, pw, net) :
        s \in AuthServers, p \in AuthPaths, t \in AuthTimeouts, u \in AuthUsers,
        pw \in AuthPasswords, net \in NetOutcomes}

\* servers and auth paths, character by character
ServerChars == {"a", "1", ":", "/"}
PathChars == {"a", "/"}

URLProbes ==
    {Probe("new", Config(s, p, 5, FALSE), "testuser", "testpass",
           Response(200, Body("json", "tok-1", ""))) :
        s \in SeqsUpTo(ServerChars, MaxServerLen), p \in SeqsUpTo(PathChars, MaxPathLen)}

InitCmd ==
    /\ username = ""
    /\ password = ""
    /\ server = <<>>
    /\ last = NoObservation
    /\ reader = NoReader
    /\ procs = NoProcs

\* a process about to run commands against whatever is at the path, or about
\* to call pkg/auth directly
Init ==
    /\ InitCmd
    /\ \/ file \in InitialFiles /\ probe = Idle
       \/ file = Absent /\ probe \in AuthProbes

\* commands only, starting without a kubeconfig
InitFresh == InitCmd /\ file = Absent /\ probe = Idle

\* URL construction in pkg/auth
InitURL == InitCmd /\ file = Absent /\ probe \in URLProbes

\* direct calls of pkg/auth only
InitAuth == InitCmd /\ file = Absent /\ probe \in AuthProbes

\* the inputs of ReadSecurely: every sequence of events up to the bound
ReadInputs == SeqsUpTo(InputEvents, MaxInputLen)

\* a call of ReadSecurely about to start, on a terminal in either mode
InitRead ==
    /\ username = ""
    /\ password = ""
    /\ server = <<>>
    /\ last = NoObservation
    /\ file = Absent
    /\ probe = Idle
    /\ procs = NoProcs
    /\ reader \in {Reader("start", input, mode) : input \in ReadInputs, mode \in TerminalModes}

\* a call of ReadLine about to start, on a terminal in either mode
InitLine ==
    /\ username = ""
    /\ password = ""
    /\ server = <<>>
    /\ last = NoObservation
    /\ file = Absent
    /\ probe = Idle
    /\ procs = NoProcs
    /\ reader \in {Reader("line", input, mode) :
                      input \in SeqsUpTo(LineEvents, MaxInputLen), mode \in TerminalModes}

\* invocations about to run concurrently
InitRace ==
    /\ username = ""
    /\ password = ""
    /\ server = <<>>
    /\ last = NoObservation
    /\ reader = NoReader
    /\ probe = Idle
    /\ file \in RaceFiles
    /\ procs = [NoProcs EXCEPT !.start = file]

NextCmd == NewLoginCmd \/ Login \/ UseContext

NextAuth == Construct \/ Call

NextRead == WritePrompt \/ GetState \/ ReadChar \/ Restore

NextRace == LoginAuthenticated \/ UseContextLoaded \/ WriteKubeconfig

Next == NextCmd \/ NextAuth

Spec == Init /\ [][Next]_vars

SpecFresh == InitFresh /\ [][NextCmd]_vars

SpecURL == InitURL /\ [][NextAuth]_vars

SpecAuth == InitAuth /\ [][NextAuth \/ CallAuthenticate]_vars

SpecRead == InitRead /\ [][NextRead]_vars

SpecRace == InitRace /\ [][NextRace]_vars

SpecLine == InitLine /\ [][ReadLine]_vars

----------------------------------------------------------------------------
(* properties *)

\* the entries of document d keyed by k, for each of the three maps
KeptFrom(d, e, k) ==
    /\ k \in DOMAIN d.clusters => k \in DOMAIN e.clusters /\ e.clusters[k] = d.clusters[k]
    /\ k \in DOMAIN d.users => k \in DOMAIN e.users /\ e.users[k] = d.users[k]
    /\ k \in DOMAIN d.contexts => k \in DOMAIN e.contexts /\ e.contexts[k] = d.contexts[k]

Keys(d) == DOMAIN d.clusters \cup DOMAIN d.users \cup DOMAIN d.contexts

LoginSucceeded == last.op = "login" /\ last.err = NoErr

\* C1: a successful login to server S leaves every cluster, credential and
\* context record keyed by another server as it was in the file, so that after
\* logins to S1 and then S2 the file holds the entries of both and
\* currentContext = S2.
C1_LoginKeepsOtherServers ==
    LoginSucceeded /\ last.pre.state = "ok" =>
        /\ file.state = "ok"
        /\ file.doc.current = last.name
        /\ \A k \in Keys(last.pre.doc) \ {last.name} : KeptFrom(last.pre.doc, file.doc, k)

FileSystemFailure(e) == e.kind \in {"home", "write"}

\* C3: use-context with the name of an existing context succeeds (unless the
\* file system fails it) and the file afterwards is the file before with
\* currentContext set to the name: no cluster, credential or context record
\* changes.
C3_UseContextSetsOnlyCurrent ==
    /\ last.op = "use-context"
    /\ last.pre.state = "ok"
    /\ last.name \in DOMAIN last.pre.doc.contexts
    => /\ last.err = NoErr \/ FileSystemFailure(last.err)
       /\ last.err = NoErr =>
            /\ file = Stored([last.pre.doc EXCEPT !.current = last.name])
            /\ file.doc.clusters = last.pre.doc.clusters
            /\ file.doc.users = last.pre.doc.users
            /\ file.doc.contexts = last.pre.doc.contexts

\* C3 witness: a switch to another context of a file with two contexts.
C3_Witness ==
    /\ last.op = "use-context"
    /\ last.err = NoErr
    /\ last.pre = Stored(TwoClusters)
    /\ last.name = SrvB
    /\ file.doc.current = SrvB
    /\ SrvA \in DOMAIN file.doc.contexts

ContextNotFound == Err("context does not exist")

\* C4: use-context with a name that is not a context of the file returns an
\* error, the context-not-found error once the path is resolved, and does not
\* write: the file, currentContext included, is as before.
C4_UnknownContextLeavesFile ==
    /\ last.op = "use-context"
    /\ last.pre.state = "ok"
    /\ last.name # <<>>
    /\ last.name \notin DOMAIN last.pre.doc.contexts
    => /\ last.err = ContextNotFound \/ last.err.kind = "home"
       /\ ~last.wrote
       /\ file = last.pre
       /\ file.doc.current = last.pre.doc.current

\* C4 witness: the name "x" against the file with contexts c1 and c2.
C4_Witness ==
    /\ last.op = "use-context"
    /\ last.name = <<"x">>
    /\ last.err = ContextNotFound
    /\ last.pre = Stored(TestKubeconfig)
    /\ file.doc.current = Context1

\* referential integrity of a kubeconfig document
ReferentialIntegrity(d) ==
    /\ d.current # <<>> => d.current \in DOMAIN d.contexts
    /\ \A k \in DOMAIN d.contexts :
        /\ d.contexts[k].cluster \in DOMAIN d.clusters
        /\ d.contexts[k].user \in DOMAIN d.users

\* C5: starting without a file, whatever logins and use-contexts run, a file
\* that exists has referential integrity: a non-empty currentContext is a
\* context, and every context's cluster and user exist.
C5_ReferentialIntegrity == file.state = "ok" => ReferentialIntegrity(file.doc)

\* C5 witness: a successful use-context on a file a login wrote.
C5_Witness ==
    /\ last.op = "use-context"
    /\ last.err = NoErr
    /\ file.state = "ok"
    /\ file.doc.current = SrvA
    /\ SrvA \in DOMAIN file.doc.clusters

\* the call of the probe has returned
Returned == probe.pc = "done"

\* C6: no request is sent with an empty username or password. Authenticate
\* with either empty returns ErrEmptyCredentials and sends nothing; login calls
\* Authenticate only with both non-empty, and fails when it ends with either
\* empty.
C6_NoRequestWithEmptyCredentials ==
    /\ Returned /\ (probe.user = "" \/ probe.pass = "") =>
        probe.res = Result("", ErrEmptyCredentials, 0, <<>>)
    /\ Returned /\ probe.res.sent > 0 => probe.user # "" /\ probe.pass # ""
    /\ last.op = "login" /\ (last.authCalled \/ last.sent > 0) =>
        last.user # "" /\ last.pass # ""
    /\ last.op = "login" /\ (last.user = "" \/ last.pass = "") =>
        last.err # NoErr /\ ~last.authCalled /\ last.sent = 0

\* C6 witness: Authenticate("", "testpass") on a server that is not a test
\* server.
C6_Witness ==
    /\ Returned
    /\ probe.user = ""
    /\ probe.pass = "testpass"
    /\ probe.config.Server = SrvA
    /\ probe.res.err = ErrEmptyCredentials

\* the response the call of the probe received, if it received one
Received == Do(probe.res.url, probe.net)

GotResponse == Returned /\ probe.res.sent > 0 /\ Received.kind = "resp"

Decoded == GotResponse /\ Unmarshal(Received.body).ok

\* C7: for a decoded response with status 200, a non-empty token is returned
\* as it is with no error, and an empty token gives ErrEmptyToken and no
\* token; Authenticate never returns success with an empty token.
C7_Status200Token ==
    /\ Decoded /\ Received.status = 200 =>
        /\ Received.body.token # "" =>
             probe.res.token = Received.body.token /\ probe.res.err = NoErr
        /\ Received.body.token = "" =>
             probe.res.token = "" /\ probe.res.err = ErrEmptyToken
    /\ Returned /\ probe.res.err = NoErr => probe.res.token # ""
    /\ LoginSucceeded => last.token # ""

\* C7 witness: a 200 response whose token is empty.
C7_Witness ==
    /\ Decoded
    /\ Received.status = 200
    /\ Received.body.token = ""
    /\ probe.res.err = ErrEmptyToken

\* the error for a status that is not 200 and a body without an error string
StatusCodeError(n) == [Err("authentication failed with status code") EXCEPT !.code = n]

\* C8: for a response with a status N other than 200, Authenticate returns an
\* error: with the error string of the body when there is one, otherwise
\* 'authentication failed with status code: N', also when there is no body.
C8_Non200Error ==
    GotResponse /\ Received.status # 200 =>
        /\ probe.res.err # NoErr
        /\ Received.body.error # "" => probe.res.err.msg = Received.body.error
        /\ Received.body.error = "" => probe.res.err = StatusCodeError(Received.status)

SendFailed == Wrap("failed to send request", Err("transport"))

\* C9 as stated: at most one request per call; a transport failure gives the
\* wrapped network error after one request, and every other outcome has sent
\* exactly one.
C9_ExactlyOneOnEveryOtherOutcome ==
    Returned =>
        /\ probe.res.sent <= 1
        /\ probe.res.err = SendFailed => probe.res.sent = 1
        /\ probe.res.err # SendFailed => probe.res.sent = 1

\* the returns of Authenticate that come before the request is sent
ReturnsBeforeSending ==
    \/ CredentialsEmpty(probe.user, probe.pass)
    \/ Contains(probe.a.config.Server, TestDotCom)
    \/ ~ParseURL(probe.a.config.Server \o probe.a.config.AuthPath).ok

\* C9 amended: at most one request per call; a transport failure gives the
\* wrapped network error after one request; a call that returns before
\* sending (empty credentials, test server, request not created) has sent
\* none, and every other call has sent exactly one.
C9_AtMostOneRequest ==
    Returned =>
        /\ probe.res.sent <= 1
        /\ probe.res.err = SendFailed => probe.res.sent = 1
        /\ ReturnsBeforeSending <=> probe.res.sent = 0
        /\ Do(probe.a.config.Server \o probe.a.config.AuthPath, probe.net).kind = "fail"
           /\ ~ReturnsBeforeSending => probe.res.err = SendFailed

\* C9 witness: a transport failure.
C9_Witness ==
    /\ Returned
    /\ probe.net = TransportFailure
    /\ probe.res.err = SendFailed
    /\ probe.res.sent = 1

\* the part of a URL after the scheme separator
AfterScheme(u) ==
    LET i == Index(u, ":")
        rest == SubSeq(u, i + 1, Len(u))
    IN  IF HasPrefix(rest, <<"/", "/">>) THEN SubSeq(rest, 3, Len(rest)) ELSE rest

\* C10: for every accepted server and every authPath, the request URL is the
\* normalized server (explicit scheme, no trailing slash) followed by an
\* authPath that starts with exactly one slash, and has no double slash after
\* the scheme separator.
C10_RequestURLWellFormed ==
    Returned /\ probe.res.sent > 0 =>
        LET srv == probe.a.config.Server
            path == SubSeq(probe.res.url, Len(srv) + 1, Len(probe.res.url))
        IN  /\ HasPrefix(probe.res.url, srv)
            /\ ParseURL(srv).Scheme # <<>>
            /\ srv[Len(srv)] # "/"
            /\ HasPrefix(path, <<"/">>)
            /\ ~HasPrefix(path, <<"/", "/">>)
            /\ ~Contains(AfterScheme(probe.res.url), <<"/", "/">>)

\* the config the login command builds: only the server is given
OnlyServerGiven ==
    /\ ~probe.config.isNil
    /\ probe.config.AuthPath = <<>>
    /\ probe.config.Timeout = 0

\* C11: an authenticator built from a config that gives only the server has
\* the authPath and the timeout of DefaultConfig ("/auth", 10 seconds), and
\* posts to the normalized server followed by "/auth".
C11_UnsetFieldsTakeDefaults ==
    /\ probe.pc \in {"ready", "done"} /\ OnlyServerGiven =>
        /\ probe.a.config.AuthPath = DefaultConfig.AuthPath
        /\ probe.a.client.Timeout = DefaultConfig.Timeout
    /\ Returned /\ OnlyServerGiven /\ probe.res.sent > 0 =>
        probe.res.url = probe.a.config.Server \o DefaultConfig.AuthPath

\* the call of ReadSecurely has returned
ReadReturned == reader.pc = "done"

\* C12: on every exit path of ReadSecurely taken after the terminal state was
\* recorded (line terminator, interrupt, read error), terminal.Restore has run
\* exactly once when the call returns and the terminal is in the recorded
\* state; it never runs twice, and never without a recorded state.
C12_TerminalRestoredOnce ==
    /\ ReadReturned /\ reader.recorded =>
        reader.restores = 1 /\ reader.mode = reader.oldState
    /\ reader.restores <= 1
    /\ ~reader.recorded => reader.restores = 0

\* C12 witness: an interrupt after one typed character, the terminal restored.
C12_Witness ==
    /\ ReadReturned
    /\ reader.input = <<LowerA, CtrlC>>
    /\ reader.ret.err = Err("interrupted by user")
    /\ reader.oldState = "cooked"
    /\ reader.restores = 1

\* the position of the first line terminator or interrupt byte, 0 if none
FirstEnd(input) ==
    IF \E i \in 1..Len(input) : input[i] \in {CR, LF, CtrlC}
    THEN CHOOSE i \in 1..Len(input) :
            /\ input[i] \in {CR, LF, CtrlC}
            /\ \A j \in 1..(i - 1) : input[j] \notin {CR, LF, CtrlC}
    ELSE 0

\* the buffer after the bytes of a stream, processed in order: a printable
\* byte is appended, backspace and delete drop the last byte if there is one,
\* anything else is ignored
RECURSIVE Processed(_)
Processed(bytes) ==
    IF bytes = <<>> THEN <<>>
    ELSE LET before == Processed(SubSeq(bytes, 1, Len(bytes) - 1))
             c == bytes[Len(bytes)]
         IN  IF c >= 32 /\ c <= 126 THEN Append(before, c)
             ELSE IF c \in {8, 127}
                  THEN IF before = <<>> THEN <<>> ELSE SubSeq(before, 1, Len(before) - 1)
             ELSE before

\* the stream is ended by a CR or LF that no interrupt byte precedes
EndsWithTerminator ==
    /\ FirstEnd(reader.input) # 0
    /\ reader.input[FirstEnd(reader.input)] \in {CR, LF}

\* C13: once the read loop is entered, for every stream whose first byte among
\* CR, LF and 3 is a CR or LF, ReadSecurely returns, with no error, the buffer
\* obtained by processing the bytes before it in order.
C13_ReturnsProcessedBuffer ==
    ReadReturned /\ reader.recorded /\ EndsWithTerminator =>
        reader.ret = Return(Processed(SubSeq(reader.input, 1, FirstEnd(reader.input) - 1)),
                            NoErr)

\* C13 witness: a, b, delete, CR gives "a".
C13_Witness ==
    /\ ReadReturned
    /\ reader.input = <<LowerA, LowerB, Delete, CR>>
    /\ reader.ret = Return(<<LowerA>>, NoErr)

\* the stream has an interrupt byte that no CR or LF precedes
EndsWithInterrupt ==
    /\ FirstEnd(reader.input) # 0
    /\ reader.input[FirstEnd(reader.input)] = CtrlC

\* C14: once the read loop is entered, a byte 3 before any CR or LF makes the
\* call return the empty string and the Interrupted error, whatever was in the
\* buffer, and nothing after that byte is consumed.
C14_InterruptDiscardsBuffer ==
    ReadReturned /\ reader.recorded /\ EndsWithInterrupt =>
        /\ reader.ret = Return(<<>>, Err("interrupted by user"))
        /\ reader.pos = FirstEnd(reader.input)

\* C14 witness: a typed character in the buffer, an interrupt, more input
\* after it.
C14_Witness ==
    /\ ReadReturned
    /\ reader.input = <<LowerA, CtrlC, LowerB, CR>>
    /\ reader.password = <<LowerA>>
    /\ reader.ret = Return(<<>>, Err("interrupted by user"))
    /\ reader.pos = 2

\* C20: ReadSecurely has put the terminal into raw mode when the character
\* loop starts, and every byte the loop reads is read in raw mode.
C20_ReadsInRawMode ==
    /\ reader.pc = "loop" => reader.mode = "raw"
    /\ \A i \in DOMAIN reader.readIn : reader.readIn[i] = "raw"

\* a document with one cluster, one user and one context, all keyed by k and
\* linked, and k the current context
SingleEntry(d, k) ==
    /\ DOMAIN d.clusters = {k}
    /\ DOMAIN d.users = {k}
    /\ DOMAIN d.contexts = {k}
    /\ d.contexts[k].cluster = k
    /\ d.contexts[k].user = k
    /\ d.current = k

\* the server answered the request of the last command with 200
Answered200 == last.net.kind = "resp" /\ last.net.status = 200

\* C15: after a successful login to S with no file at the path, the server
\* having answered 200 with token T, the file has exactly one cluster, user and
\* context, keyed by S and linked, currentContext = S, and the token of user S
\* is T.
C15_FreshLoginWritesSingleEntry ==
    LoginSucceeded /\ last.pre = Absent /\ Answered200 =>
        /\ file.state = "ok"
        /\ SingleEntry(file.doc, last.name)
        /\ file.doc.clusters[last.name].server = last.name
        /\ file.doc.users[last.name].token = last.net.body.token

\* C15 witness: the first login, to https://a, the server answering tok-2.
C15_Witness ==
    /\ LoginSucceeded
    /\ last.pre = Absent
    /\ last.name = SrvA
    /\ last.net = Response(200, Body("json", "tok-2", ""))
    /\ file.doc.users[SrvA].token = "tok-2"

\* the file the last login found had been left by a login to the same server
SecondLogin ==
    /\ LoginSucceeded
    /\ last.pre.state = "ok"
    /\ last.name \in DOMAIN last.pre.doc.clusters

\* C16: a successful login to S over the file of an earlier login to S leaves
\* one cluster, user and context for S, with the token of this login; if this
\* login got the same token and settings, the file is the same as before.
C16_LoginUpsertsByServer ==
    SecondLogin =>
        /\ last.name \in DOMAIN file.doc.clusters
        /\ last.name \in DOMAIN file.doc.users
        /\ last.name \in DOMAIN file.doc.contexts
        /\ file.doc.users[last.name].token = last.token
        /\ file.doc.contexts[last.name] = [cluster |-> last.name, user |-> last.name]
        /\ /\ last.pre.doc.users[last.name].token = last.token
           /\ last.pre.doc.clusters[last.name] = file.doc.clusters[last.name]
           => file = last.pre

\* C16 witness: a second login to https://a that got another token than the
\* first.
C16_Witness ==
    /\ SecondLogin
    /\ last.name = SrvA
    /\ last.pre.doc.users[SrvA].token = "tok-1"
    /\ last.token = "tok-2"
    /\ file.doc.users[SrvA].token = "tok-2"

\* C17: a login with --token T and a server, and no username or password,
\* succeeds without prompting and leaves a file at the path.
C17_TokenFlagLogin ==
    last.op = "login" /\ last.tokenFlag => last.err = NoErr /\ file.state = "ok"

\* the invocation that wrote last
LastWriter == procs.order[Len(procs.order)]

\* C18: concurrent invocations are not kept apart: once any has written, the
\* file is exactly the document the last writer wrote, whatever the others
\* wrote or found.
C18_LastWriterWins ==
    procs.order # <<>> => file = Stored(procs.inv[LastWriter].doc)

\* C18 witness: use-context loads, login writes, use-context writes; the login
\* returned no error and its server is nowhere in the file.
C18_Witness ==
    \E i, j \in Invocations :
        /\ procs.inv[i].op = "login"
        /\ procs.inv[i].pc = "done"
        /\ procs.inv[i].err = NoErr
        /\ procs.inv[j].op = "use-context"
        /\ procs.inv[j].pc = "done"
        /\ procs.inv[j].err = NoErr
        /\ procs.order = <<i, j>>
        /\ file.state = "ok"
        /\ procs.inv[i].name \notin Keys(file.doc)

DecodeFailed == Wrap("failed to decode response", Err("json"))

FunctionReturned == probe.pc = "returned"

\* a token came back, and it is the token field of a 200 response to the one
\* request of the call
TokenFrom200 ==
    /\ probe.res.err = NoErr
    /\ probe.res.sent = 1
    /\ Received.kind = "resp"
    /\ Received.status = 200
    /\ Received.body.token = probe.res.token

\* C21: with a non-empty username and password, a server containing
\* "test.com" gets the fixed token "test-token" and no request is sent; for
\* every other server a token is returned only as the token field of a 200
\* response to the request of that call. Both for the method and for the
\* package function.
C21_TokenOnlyFromShortcutOr200 ==
    /\ Returned /\ probe.user # "" /\ probe.pass # ""
       /\ Contains(probe.a.config.Server, TestDotCom)
       => probe.res = Result(TestToken, NoErr, 0, <<>>)
    /\ Returned /\ ~Contains(probe.a.config.Server, TestDotCom) /\ probe.res.token # ""
       => TokenFrom200
    /\ FunctionReturned /\ probe.user # "" /\ probe.pass # ""
       /\ Contains(probe.config.Server, TestDotCom)
       => probe.res = Result(TestToken, NoErr, 0, <<>>)
    /\ FunctionReturned /\ ~Contains(probe.config.Server, TestDotCom)
       /\ probe.res.token # ""
       => TokenFrom200

\* C21 witness: the method on https://test.com, the network ready to answer
\* 200 with another token.
C21_Witness ==
    /\ Returned
    /\ probe.a.config.Server = SrvTest
    /\ probe.net = Response(200, Body("json", "tok-1", ""))
    /\ probe.res = Result(TestToken, NoErr, 0, <<>>)

\* C22: the value of --insecure-skip-tls-verify of a login (false when the
\* flag is absent) is the insecure-skip-tls-verify the login stores in the
\* cluster record of its server, and the verification policy of the HTTP
\* client it authenticates with.
C22_TLSPolicyFollowsFlag ==
    /\ LoginSucceeded =>
        file.doc.clusters[last.name].insecure = last.given.skipTLS
    /\ last.op = "login" /\ last.authCalled =>
        LoginAuthenticator[last.name].a.client.InsecureSkipVerify = last.given.skipTLS

\* C23: a login that authenticates was given its username and its password
\* by flag or by prompt in that invocation; a value a previous invocation left
\* behind is never used in their place.
C23_CredentialsOfThisInvocation ==
    last.op = "login" /\ last.authCalled =>
        /\ last.given.user
        /\ last.given.pass

\* the call of ReadLine has returned, the prompt having been written
LineReturned == reader.pc = "returned" /\ reader.out = <<Prompt>>

\* the position of the first newline of the input, 0 if the source fails or
\* ends before one
FirstNewline ==
    IF \E i \in 1..Len(reader.input) :
            /\ reader.input[i] = 10
            /\ \A j \in 1..(i - 1) : reader.input[j] # Broken
    THEN CHOOSE i \in 1..Len(reader.input) :
            /\ reader.input[i] = 10
            /\ \A j \in 1..(i - 1) : reader.input[j] \notin {10, Broken}
    ELSE 0

\* v is line without its leading and trailing white space
TrimmedOf(v, line) ==
    /\ \E i \in 0..Len(line), j \in 0..Len(line) :
        /\ i + Len(v) + j = Len(line)
        /\ SubSeq(line, i + 1, i + Len(v)) = v
        /\ \A k \in 1..i : line[k] \in {9, 10, 11, 12, 13, 32}
        /\ \A k \in (Len(line) - j + 1)..Len(line) : line[k] \in {9, 10, 11, 12, 13, 32}
    /\ v # <<>> => v[1] \notin {9, 10, 11, 12, 13, 32}
                   /\ v[Len(v)] \notin {9, 10, 11, 12, 13, 32}

\* what ReadLine returns, for each input
ReadLineResult ==
    LineReturned =>
        /\ FirstNewline # 0 =>
            /\ reader.ret.err = NoErr
            /\ TrimmedOf(reader.ret.val, SubSeq(reader.input, 1, FirstNewline - 1))
        /\ FirstNewline = 1 => reader.ret.val = <<>>
        /\ FirstNewline = 0 =>
            /\ reader.ret.val = <<>>
            /\ reader.ret.err.kind \in {"EOF", "read error"}
            /\ reader.ret.err.wrap = <<"failed to read input">>

\* C24: ReadLine returns the input up to the next newline with the white
\* space around it trimmed (the empty string for a lone newline), returns an
\* error wrapping the read error when the source fails or ends before a
\* newline, and no step of it changes the mode of the terminal.
C24_ReadLineTrimsAndKeepsMode ==
    []ReadLineResult /\ [][reader'.mode = reader.mode /\ reader'.restores = reader.restores]_vars

\* C24 witness: space, a, CR, LF gives "a".
C24_Witness ==
    /\ LineReturned
    /\ reader.input = <<Space, LowerA, CR, LF>>
    /\ reader.ret = Return(<<LowerA>>, NoErr)
    /\ reader.mode = "raw"

\* how many of the writes in out are w
RECURSIVE Written(_, _)
Written(out, w) ==
    IF out = <<>> THEN 0
    ELSE Written(SubSeq(out, 1, Len(out) - 1), w) + (IF out[Len(out)] = w THEN 1 ELSE 0)

\* C25: at every point of a masked read, the masks "*" written less the
\* erase sequences written is the length of the buffer, and everything
\* written is the prompt, a mask, an erase sequence or the final newline,
\* never a byte of the input.
C25_DisplayInStepWithBuffer ==
    reader.pc \in {"start", "prompted", "loop", "deferred", "done"} =>
        /\ Written(reader.out, "*") - Written(reader.out, "\\b \\b") = Len(reader.password)
        /\ \A i \in DOMAIN reader.out :
            reader.out[i] \in {"Enter password: ", "*", "\\b \\b", "\n"}

\* C25 witness: a, b, delete, then in the loop: two masks, one erase, one
\* byte in the buffer.
C25_Witness ==
    /\ reader.pc = "loop"
    /\ reader.input = <<LowerA, LowerB, Delete, LowerA>>
    /\ reader.pos = 3
    /\ reader.out = <<Prompt, Mask, Mask, Erase>>
    /\ reader.password = <<LowerA>>

\* the file the concurrent invocations were started on had referential
\* integrity, or there was none
StartedWithIntegrity ==
    procs.start.state = "ok" => ReferentialIntegrity(procs.start.doc)

\* C26: with any number of logins and use-contexts running concurrently on a
\* file that had referential integrity, each load and each write one step,
\* every state of the file has it: a non-empty currentContext is a context,
\* and every context's cluster and user exist.
C26_IntegritySurvivesInterleaving ==
    StartedWithIntegrity /\ file.state = "ok" => ReferentialIntegrity(file.doc)

\* C26 witness: on the file with https://a and https://b, a use-context
\* loaded, a login wrote, and the use-context wrote over it.
C26_Witness ==
    \E i, j \in Invocations :
        /\ procs.start = Stored(TwoClusters)
        /\ procs.inv[i].op = "login"
        /\ procs.inv[j].op = "use-context"
        /\ procs.order = <<i, j>>
        /\ procs.inv[i].name = SrvB
        /\ procs.inv[j].name = SrvA
        /\ file = Stored(TwoClusters)

\* C27: use-context with a name, on a resolved path where the file is absent
\* or malformed, returns the load error, before the existence check, and does
\* not write: the path is still absent, or still holds the same content.
C27_UseContextNeverCreatesFile ==
    /\ last.op = "use-context"
    /\ last.name # <<>>
    /\ last.err.kind # "home"
    /\ last.pre.state \in {"absent", "malformed"}
    => /\ last.err.wrap = <<"failed to load kubeconfig">>
       /\ last.err.kind \in {"no such file", "yaml"}
       /\ ~last.wrote
       /\ file = last.pre

\* C27 witness: use-context c1 with no file at the path.
C27_Witness ==
    /\ last.op = "use-context"
    /\ last.name = Context1
    /\ last.pre = Absent
    /\ last.err = Wrap("failed to load kubeconfig", Err("no such file"))
    /\ file = Absent

====
